---- MODULE Spec2Model ----
(***************************************************************************)
(* Callback bridging and lifetime of the fomantic-ui bindings:             *)
(* Action, ModalConfig, Modal, ToastConfig, Toast and the host objects     *)
(* they create.  A Closure is an entry of the table `slots`; dropping the  *)
(* Rust value that owns it releases the entry, after which the handle the  *)
(* host still holds throws when invoked instead of running the handler.    *)
(*                                                                         *)
(* A closure is named <<kind, n, role, version>>: the n-th object of the   *)
(* kind, the field that holds it, and how often the field was replaced.    *)
(* A JavaScript configuration object (a bag) is named <<kind, n>>.         *)
(***************************************************************************)
EXTENDS Naturals, Sequences, FiniteSets, TLC

VARIABLES slots, bags, acts, mcfgs, tcfgs, modals, hosts, lastEv, fin, made,
          nops, given, issued, answer,
          data, column_sorting, headings, keys, tbody, lookup, serde

\* the number of primitive builder operations called and the arguments given
\* to each builder
propVars == <<nops, given>>

\* the operations called on each Modal and the answer to the last query
cmdVars == <<issued, answer>>

\* the Table component: its props and what the last render pass produced
tableVars == <<data, column_sorting, headings, keys, tbody>>

\* the variant of Modal built from a serialized struct or looked up by a
\* selector: the last lookup and the last construction
variantVars == <<lookup, serde>>

vars == <<slots, bags, acts, mcfgs, tcfgs, modals, hosts, lastEv, fin, made,
          propVars, cmdVars, tableVars, variantVars>>

(* ------------------------------ bounds -------------------------------- *)

\* host objects ever created
MaxHosts == 2

\* Actions, configurations and Modals the application ever creates
MaxActs == 2

MaxCfgs == 1

MaxModals == 1

\* operations called on one Modal
MaxLog == 3

\* closures wrapping an application handler that are ever created
MaxAttach == 2

\* primitive builder operations (with_*, position, ...) ever called
MaxOps == 3

\* rows of the data, columns of a Table and runs of its row iterator
MaxRows == 2

MaxCols == 2

MaxPass == 3

\* bits of a hasher state and of a key (u64 in the program)
HashBits == 4

\* application handler functions; 0 is the default closure (|| true, || ())
Handlers == {1, 2}

Texts == {"Saved", "Done"}

\* ToastProgressBar values; class is an Option: <<>> is None, <<c>> is Some(c)
ProgressBars ==
    [position : {"Bottom", "Top"}, class : {<<>>, <<"blue">>}, increasing : BOOLEAN]

\* row items: the application's type R, with derived equality and Hash
Items == {[id |-> 1, value |-> 0], [id |-> 2, value |-> 1]}

\* the collections the application passes as data
Datas == UNION {[1..n -> Items] : n \in 0..MaxRows}

\* TableSortingAlgorithm values
SortingAlgorithms == {"Default", "Float"}

\* the vectors the application passes as column_sorting
SortingLists == UNION {[1..n -> SortingAlgorithms] : n \in 0..MaxCols}

\* ToastPosition values
Positions ==
    {"BottomRight", "BottomLeft", "TopRight", "TopLeft", "TopAttached", "BottomAttached"}

\* ToastDisplayTime values
DisplayTimes ==
    {[kind |-> "Time", t |-> 0], [kind |-> "Time", t |-> 1500],
     [kind |-> "UntilClicked", t |-> 0], [kind |-> "BasedOnWordAmount", t |-> 0]}

(* ------------------------------ closures ------------------------------ *)

\* Option::None for a closure field; no bag
NoSlot == <<"none", 0, "", 0>>

NoBag == <<"none", 0>>

\* Closure::new(f) stored as closure id
Alloc(sl, id, f) ==
    [x \in (DOMAIN sl) \cup {id} |-> IF x = id THEN [fn |-> f, alive |-> TRUE] ELSE sl[x]]

\* drop of the closures S
Release(sl, S) == [i \in DOMAIN sl |-> IF i \in S THEN [sl[i] EXCEPT !.alive = FALSE] ELSE sl[i]]

\* the closure that replaces closure id in its field
Successor(id) == <<id[1], id[2], id[3], id[4] + 1>>

Range(s) == {s[i] : i \in DOMAIN s}

\* the closures created from application handlers so far
Attached(sl) == {i \in DOMAIN sl : sl[i].fn # 0}

(* --------------------------- property bags ---------------------------- *)

\* Object constructor: a property bag without properties
EmptyBag == [k \in {} |-> 0]

\* a wasm-bindgen setter: bag.k = v
Put(bag, k, v) == [x \in (DOMAIN bag) \cup {k} |-> IF x = k THEN v ELSE bag[x]]

Has(bag, k) == k \in DOMAIN bag

\* a new JavaScript object id in the heap
NewBag(bg, id) == [x \in (DOMAIN bg) \cup {id} |-> IF x = id THEN EmptyBag ELSE bg[x]]

\* the fields of ModalConfig that hold closures, in declaration order
Roles == <<"on_show", "on_visible", "on_hide", "on_hidden", "on_approve", "on_deny">>

RoleSet == Range(Roles)

\* the property a modal setter assigns: wasm-bindgen strips "set_" from the
\* function name when no js_name is given
SetterKey(r) == r

\* the setting the host modal reads for a lifecycle role
HostKey(r) ==
    CASE r = "on_show" -> "onShow"
      [] r = "on_visible" -> "onVisible"
      [] r = "on_hide" -> "onHide"
      [] r = "on_hidden" -> "onHidden"
      [] r = "on_approve" -> "onApprove"
      [] r = "on_deny" -> "onDeny"

(* ------------------------------- Action ------------------------------- *)

\* Action::new that also writes the handle of the default closure
ActionNewRegistered(sl, n) ==
    [act |-> [click |-> <<"act", n, "click", 0>>,
              js_config |-> Put(EmptyBag, "click", <<"act", n, "click", 0>>)],
     slots |-> Alloc(sl, <<"act", n, "click", 0>>, 0)]

\* Action::new for the n-th Action: the action and the new closure table
ActionNew(sl, n) ==
    [act |-> [click |-> <<"act", n, "click", 0>>, js_config |-> EmptyBag],
     slots |-> Alloc(sl, <<"act", n, "click", 0>>, 0)]

\* Action::click writing the handle before the field is replaced
AttachClickStale(act, s) ==
    [click |-> s, js_config |-> Put(act.js_config, "click", act.click)]

\* Action::click with the new closure s: the field is replaced, then the
\* handle of the field is written
AttachClick(act, s) ==
    [click |-> s, js_config |-> Put(act.js_config, "click", s)]

(* ----------------------------- ModalConfig ---------------------------- *)

\* ModalConfig::default as configuration id = <<kind, n>>: a new bag and six
\* default closures
ModalConfigDefault(sl, bg, id) ==
    [cfg |-> [js_config |-> id,
              on_show |-> <<id[1], id[2], "on_show", 0>>,
              on_visible |-> <<id[1], id[2], "on_visible", 0>>,
              on_hide |-> <<id[1], id[2], "on_hide", 0>>,
              on_hidden |-> <<id[1], id[2], "on_hidden", 0>>,
              on_approve |-> <<id[1], id[2], "on_approve", 0>>,
              on_deny |-> <<id[1], id[2], "on_deny", 0>>],
     slots |-> [x \in (DOMAIN sl) \cup {<<id[1], id[2], r, 0>> : r \in RoleSet} |->
                  IF x \in DOMAIN sl THEN sl[x] ELSE [fn |-> 0, alive |-> TRUE]],
     bags |-> NewBag(bg, id)]

\* the closures a ModalConfig owns
ConfigSlots(cfg) == {cfg[r] : r \in RoleSet}

\* ModalConfig::set_on_*: with the new closure s the field of role r is
\* replaced, then the handle of the field is written under the setter's key
AttachRole(cfg, bag, r, s) ==
    LET c == [cfg EXCEPT ![r] = s]
    IN  [cfg |-> c, bag |-> Put(bag, SetterKey(r), c[r])]

(* ----------------------------- host objects --------------------------- *)

\* a host constructor call ($.modal / $.toast): the host object it creates.
\* props is the bag passed (NoBag for the template constructors), seen the
\* settings the host takes from it, handler the closure handle passed as an
\* argument, cons the number of the construction that made the call
NewHost(hs, ctor, props, bg, handler, n) ==
    Append(hs, [ctor |-> ctor, props |-> props, cons |-> n,
                seen |-> IF props = NoBag THEN EmptyBag ELSE bg[props],
                handler |-> handler, log |-> <<>>,
                destroyed |-> FALSE, removed |-> FALSE])

\* the number the next construction of a widget gets
NextCons(hs) == IF hs = <<>> THEN 1 ELSE hs[Len(hs)].cons + 1

\* the closure handles found in a bag: the lifecycle entries and the click
\* entries of its actions array
BagHandles(bag) ==
    {bag[SetterKey(r)] : r \in {x \in RoleSet : Has(bag, SetterKey(x))}}
    \cup (IF Has(bag, "handler") THEN {bag["handler"]} ELSE {})
    \cup (IF Has(bag, "actions")
          THEN {bag["actions"][i]["click"] :
                   i \in {j \in DOMAIN bag["actions"] : Has(bag["actions"][j], "click")}}
          ELSE {})

\* the handles a host object holds: those of the bag it was constructed
\* with and the one passed to its constructor
HandlesHeld(h) ==
    (IF hosts[h].props = NoBag THEN {} ELSE BagHandles(bags[hosts[h].props]))
    \cup BagHandles(hosts[h].seen)
    \cup ({hosts[h].handler} \ {NoSlot})

\* the host object is in the document and has not processed "destroy"
Exists(h) == ~hosts[h].destroyed /\ ~hosts[h].removed

(* -------------------------------- Modal ------------------------------- *)

\* the closures a Modal owns
ModalSlots(m) ==
    ConfigSlots(m.modal_config) \cup Range(m.action_handler_list)
    \cup ({m.alert_handler, m.confirm_handler, m.prompt_handler} \ {NoSlot})

\* Modal::default in the construction of the n-th Modal: a default
\* ModalConfig and a host modal built from it
ModalDefault(sl, bg, hs, n, cons) ==
    LET c == ModalConfigDefault(sl, bg, <<"default", n>>)
    IN  [modal |-> [js_modal |-> Len(hs) + 1, modal_config |-> c.cfg,
                    action_handler_list |-> <<>>, alert_handler |-> NoSlot,
                    confirm_handler |-> NoSlot, prompt_handler |-> NoSlot],
         slots |-> c.slots, bags |-> c.bags,
         hosts |-> NewHost(hs, "new_modal", c.cfg.js_config, c.bags, NoSlot, cons)]

\* Modal::new(modal_config) for the n-th Modal: new_modal(&modal_config),
\* then the remaining fields are taken from Default::default(), whose
\* js_modal and modal_config are dropped
ModalNew(cfg, sl, bg, hs, n) ==
    LET h1 == NewHost(hs, "new_modal", cfg.js_config, bg, NoSlot, NextCons(hs))
        d == ModalDefault(sl, bg, h1, n, NextCons(hs))
    IN  [modal |-> [d.modal EXCEPT !.js_modal = Len(hs) + 1, !.modal_config = cfg],
         slots |-> Release(d.slots, ConfigSlots(d.modal.modal_config)),
         bags |-> d.bags, hosts |-> d.hosts]

\* Modal::new_alert / new_confirm / new_prompt for the n-th Modal: the
\* handler closure, the template constructor, ModalConfig::default() for the
\* field, and the remaining fields from Default::default()
ModalTemplate(ctor, field, f, sl, bg, hs, n) ==
    LET s == <<"modal", n, field, 0>>
        h1 == NewHost(hs, ctor, NoBag, bg, s, NextCons(hs))
        c == ModalConfigDefault(Alloc(sl, s, f), bg, <<"template", n>>)
        d == ModalDefault(c.slots, c.bags, h1, n, NextCons(hs))
    IN  [modal |-> [d.modal EXCEPT !.js_modal = Len(hs) + 1, !.modal_config = c.cfg,
                                   ![field] = s],
         slots |-> Release(d.slots, ConfigSlots(d.modal.modal_config)),
         bags |-> d.bags, hosts |-> d.hosts]

\* Modal::with_actions / ToastConfig::with_actions on the vector v: every
\* click closure is pushed to the list, the fragments are collected in a new
\* vector and the actions property is set to it
WithActions(list, bag, v) ==
    [list |-> list \o [i \in DOMAIN v |-> v[i].click],
     bag |-> Put(bag, "actions", [i \in DOMAIN v |-> v[i].js_config])]

\* JsModal::modal(behavior) putting the token before the ones already sent
ForwardFirst(hs, h, tok) == [hs EXCEPT ![h].log = <<tok>> \o @]

\* JsModal::modal(behavior) sending nothing once "destroy" was sent
ForwardUnlessDestroyed(hs, h, tok) ==
    IF hs[h].destroyed THEN hs ELSE [hs EXCEPT ![h].log = Append(@, tok)]

\* JsModal::modal(behavior) / modal_returns_bool(behavior): the host receives
\* the token
Forward(hs, h, tok) == [hs EXCEPT ![h].log = Append(@, tok)]

\* the operations called so far on the Modal of host object h
IssuedTo(h) == IF h \in DOMAIN issued THEN issued[h] ELSE <<>>

(* -------------------------------- Toast ------------------------------- *)

\* ToastConfig::new for the n-th ToastConfig: a new bag and the default
\* handler closure
ToastConfigNew(sl, bg, n) ==
    [cfg |-> [handler |-> <<"tcfg", n, "handler", 0>>, action_handler_list |-> <<>>,
              js_config |-> <<"tcfg", n>>],
     slots |-> Alloc(sl, <<"tcfg", n, "handler", 0>>, 0),
     bags |-> NewBag(bg, <<"tcfg", n>>)]

\* the closures a ToastConfig owns
ToastConfigSlots(c) == {c.handler} \cup Range(c.action_handler_list)

\* Toast is an imported JavaScript type: the value holds the host reference
\* and no closure
ToastSlots(t) == {}

\* Display for ToastProgressBarPosition
ProgressBarPositionToString(p) == IF p = "Bottom" THEN "bottom" ELSE "top"

\* a vector without its i-th element
Remove(s, i) == SubSeq(s, 1, i - 1) \o SubSeq(s, i + 1, Len(s))

(* ------------------------ primitive builder writes --------------------- *)

\* Display for ToastPosition
ToastPositionToString(p) ==
    CASE p = "BottomRight" -> "bottom right"
      [] p = "BottomLeft" -> "bottom left"
      [] p = "TopRight" -> "top right"
      [] p = "TopLeft" -> "top left"
      [] p = "TopAttached" -> "top attached"
      [] p = "BottomAttached" -> "bottom attached"

Digits == <<"0", "1", "2", "3", "4", "5", "6", "7", "8", "9">>

\* Display for u32: the decimal digits
RECURSIVE U32ToString(_)
U32ToString(n) ==
    IF n < 10 THEN Digits[n + 1] ELSE U32ToString(n \div 10) \o Digits[(n % 10) + 1]

\* Display for ToastDisplayTime
ToastDisplayTimeToString(d) ==
    CASE d.kind = "Time" -> U32ToString(d.t)
      [] d.kind = "UntilClicked" -> "0"
      [] d.kind = "BasedOnWordAmount" -> "auto"

\* The body of a primitive builder operation: its setter calls in order, each
\* as <<property, value>>.

\* ToastConfig::with_message
WithMessage(m) == << <<"message", m>> >>

\* ToastConfig::with_title calling set_message
WithTitleAsMessage(t) == << <<"message", t>> >>

\* ToastConfig::with_title
WithTitle(t) == << <<"title", t>> >>

\* ToastConfig::with_progress_bar: the class is set only when it is Some
WithProgressBar(pb) ==
    << <<"showProgress", ProgressBarPositionToString(pb.position)>> >>
    \o (IF pb.class # <<>> THEN << <<"classProgress", pb.class[1]>> >> ELSE <<>>)
    \o << <<"progressUp", pb.increasing>> >>

\* ToastConfig::with_class
ToastWithClass(c) == << <<"class", c>> >>

\* ToastConfig::position
Position(p) == << <<"position", ToastPositionToString(p)>> >>

\* ToastConfig::newest_on_top
NewestOnTop(b) == << <<"newestOnTop", b>> >>

\* ToastConfig::horizontal
Horizontal(b) == << <<"horizontal", b>> >>

\* ToastConfig::display_time
DisplayTime(d) == << <<"displayTime", ToastDisplayTimeToString(d)>> >>

\* Action::with_text
WithText(t) == << <<"text", t>> >>

\* Action::with_class
ActionWithClass(c) == << <<"class", c>> >>

\* Action::with_icon
WithIcon(i) == << <<"icon", i>> >>

\* the setter calls w applied to a new object instead of the bag
SetAllFresh(bag, w) ==
    [k \in {w[i][1] : i \in DOMAIN w} |->
        w[CHOOSE i \in DOMAIN w : w[i][1] = k /\ \A j \in DOMAIN w : w[j][1] = k => j <= i][2]]

\* the setter calls w applied to a bag in order
RECURSIVE SetAll(_, _)
SetAll(bag, w) == IF w = <<>> THEN bag ELSE SetAll(Put(bag, w[1][1], w[1][2]), Tail(w))

\* the arguments given so far to builder b, by operation
GivenTo(b) == IF b \in DOMAIN given THEN given[b] ELSE EmptyBag

\* the closures that were replaced in their field by a later closure
Superseded == {s \in DOMAIN slots : Successor(s) \in DOMAIN slots}

(* -------------------------------- Table ------------------------------- *)

\* Display for TableSortingAlgorithm
SortingToString(s) == IF s = "Float" THEN "float" ELSE ""

\* Vec::get counting the elements from 1
GetFromOne(v, idx) == IF 1 <= idx /\ idx <= Len(v) THEN <<v[idx]>> ELSE <<>>

\* Vec::get(idx), idx counted from 0: Some(x) as <<x>>, None as <<>>
Get(v, idx) == IF idx < Len(v) THEN <<v[idx + 1]>> ELSE <<>>

\* the heading closure of column idx (counted from 0): the sorting class, and
\* the classes given to the th element (th.classes is called only for a
\* class that is not empty)
Heading(sorting_vec, idx) ==
    LET sort == Get(sorting_vec, idx)
        sorting_class == IF sort = <<>> THEN "" ELSE SortingToString(sort[1])
    IN  [sorting_class |-> sorting_class,
         classes |-> IF sorting_class # "" THEN <<sorting_class>> ELSE <<>>]

\* heading_items for n column headings
heading_items(sorting_vec, n) == [i \in 1..n |-> Heading(sorting_vec, i - 1)]

\* DefaultHasher::new(): the state of a hasher with the fixed keys
DefaultHasherNew == 0

\* Hasher::write of one integer into the state h
Write(h, x) == (h * 5 + x + 1) % (2 ^ HashBits)

\* item.hash(&mut hasher): the fields are written in declaration order
ItemHash(item, h) == Write(Write(h, item.id), item.value)

\* Hasher::finish
Finish(h) == h

\* the key closure of the row iterator
key(item) == Finish(ItemHash(item, DefaultHasherNew))

\* the keys of the rows of d from hashers that start in a state depending
\* on the row
ForKeysPerRowState(d) == [i \in DOMAIN d |-> Finish(ItemHash(d[i], i))]

\* the fragment column function j returns for item
Column(j, item) == [column |-> j, item |-> item]

\* the children closure calling the column functions from the last to the
\* first
childrenReversed(m, item) == [j \in 1..m |-> Column(m + 1 - j, item)]

\* the children closure of the row iterator for the m column functions:
\* td_list, one cell per function in the order of the vector
children(m, item) == [j \in 1..m |-> Column(j, item)]

\* the rows the row iterator renders for d
ForRows(d, m) == [i \in DOMAIN d |-> children(m, d[i])]

\* the keys of the rows of d from a hasher that still holds the row before
ForKeysCarried(d) ==
    [i \in DOMAIN d |->
        Finish(ItemHash(d[i], IF i = 1 THEN DefaultHasherNew
                              ELSE ItemHash(d[i - 1], DefaultHasherNew)))]

\* one run of the row iterator over d: the key closure is called on every
\* item
ForKeys(d) == [i \in DOMAIN d |-> key(d[i])]

(* ------------------------- lookup by selector ------------------------- *)

\* selectors the application passes: of an element of the document, of no
\* element, and one that is not a selector
Selectors == {"#dialog", "#missing", "#["}

\* the host function $ called with a selector: an object holding the
\* matched elements, which is empty when nothing matches, or an exception
\* for a string that is not a selector
Dollar(selector) ==
    CASE selector = "#dialog" -> [thrown |-> FALSE, elements |-> 1, e |-> ""]
      [] selector = "#missing" -> [thrown |-> FALSE, elements |-> 0, e |-> ""]
      [] OTHER -> [thrown |-> TRUE, elements |-> 0, e |-> "SyntaxError"]

\* new_modal_from_selector: $ imported with catch, an exception becomes Err(e)
new_modal_from_selector(selector) ==
    LET r == Dollar(selector)
    IN  IF r.thrown THEN [ok |-> FALSE, e |-> r.e, elements |-> 0]
        ELSE [ok |-> TRUE, e |-> "", elements |-> r.elements]

\* anyhow!(format!("{e:#?}")) of the exception e
FormatError(e) == "JsValue(" \o e \o ")"

\* the plain ModalConfig structs the application passes
SerdeConfigs ==
    [title : Texts, class : {"tiny"}, close_icon : BOOLEAN, content : {"Body"},
     actions : {<<>>, <<[text |-> "Ok", class |-> "approve"]>>}]

\* JsValue::from_serde(&config): the host object with the fields renamed to
\* camelCase, or the error of the serializer
from_serde(config, representable) ==
    IF representable
    THEN [ok |-> TRUE, e |-> "",
          value |-> <<[title |-> config.title, class |-> config.class,
                       closeIcon |-> config.close_icon, content |-> config.content,
                       actions |-> config.actions]>>]
    ELSE [ok |-> FALSE, e |-> "SerializationError", value |-> <<>>]

\* Modal::new that passes an empty object to new_modal when the struct
\* cannot be serialized
NewFromSerdeOrEmpty(config, r) ==
    [result |-> "Ok", error |-> "", new_modal |-> <<r.value>>, config |-> <<config>>,
     serialized |-> r.ok]

\* Modal::new(&config) given the result r of from_serde: an error is
\* returned by the ? operator before new_modal is called
NewFromSerde(config, r) ==
    IF r.ok
    THEN [result |-> "Ok", error |-> "", new_modal |-> <<r.value>>, config |-> <<config>>,
          serialized |-> TRUE]
    ELSE [result |-> "Err", error |-> r.e, new_modal |-> <<>>, config |-> <<config>>,
          serialized |-> FALSE]

(* ----------------------------- initial state -------------------------- *)

\* no Rust value and no host object exists; no event was delivered and
\* nothing was finalized
Init ==
    /\ slots = [x \in {} |-> 0]
    /\ bags = [x \in {} |-> 0]
    /\ acts = <<>>
    /\ mcfgs = <<>>
    /\ tcfgs = <<>>
    /\ modals = <<>>
    /\ hosts = <<>>
    /\ lastEv = [res |-> "none", host |-> 0, role |-> "", idx |-> 0, slot |-> NoSlot,
                 fn |-> 0, reg |-> NoSlot, want |-> 0, held |-> FALSE, ret |-> "none"]
    /\ fin = [kind |-> "none", before |-> {}, acts |-> {}, widget |-> {}, builder |-> {}]
    /\ made = [act |-> 0, mcfg |-> 0, tcfg |-> 0, modal |-> 0]
    /\ nops = 0
    /\ given = [x \in {} |-> 0]
    /\ issued = [x \in {} |-> 0]
    /\ answer = [token |-> "", host |-> FALSE, ret |-> FALSE]
    /\ data = <<>>
    /\ column_sorting = <<>>
    /\ headings = <<>>
    /\ keys = [pass |-> 0, now |-> <<>>, before |-> <<>>, prev |-> <<>>, changed |-> FALSE]
    /\ tbody = [column_heading |-> 0, columns |-> 0, rows |-> <<>>]
    /\ lookup = [selector |-> "", host |-> "none", result |-> "none", diagnostic |-> "",
                 widget |-> FALSE]
    /\ serde = [result |-> "none", error |-> "", new_modal |-> <<>>, config |-> <<>>,
                serialized |-> FALSE]

(* ------------------------------ operations ---------------------------- *)

\* Action::new()
Action_new ==
    /\ made.act < MaxActs
    /\ made' = [made EXCEPT !.act = @ + 1]
    /\ LET r == ActionNew(slots, made.act + 1)
       IN  /\ acts' = Append(acts, r.act)
           /\ slots' = r.slots
    /\ UNCHANGED <<bags, mcfgs, tcfgs, modals, hosts, lastEv, fin, propVars, cmdVars, tableVars, variantVars>>

\* Action::click(f) that keeps the closure the field held alive
Action_click_retaining ==
    \E i \in DOMAIN acts, f \in Handlers :
        /\ Cardinality(Attached(slots)) < MaxAttach
        /\ acts' = [acts EXCEPT ![i] = AttachClick(acts[i], Successor(acts[i].click))]
        /\ slots' = Alloc(slots, Successor(acts[i].click), f)
        /\ UNCHANGED <<bags, mcfgs, tcfgs, modals, hosts, lastEv, fin, made, propVars, cmdVars, tableVars, variantVars>>

\* Action::click(f): the assignment to self.click drops the closure the
\* field held
Action_click ==
    \E i \in DOMAIN acts, f \in Handlers :
        /\ Cardinality(Attached(slots)) < MaxAttach
        /\ acts' = [acts EXCEPT ![i] = AttachClick(acts[i], Successor(acts[i].click))]
        /\ slots' = Release(Alloc(slots, Successor(acts[i].click), f), {acts[i].click})
        /\ UNCHANGED <<bags, mcfgs, tcfgs, modals, hosts, lastEv, fin, made, propVars, cmdVars, tableVars, variantVars>>

\* an Action goes out of scope
Action_drop ==
    \E i \in DOMAIN acts :
        /\ acts' = Remove(acts, i)
        /\ slots' = Release(slots, {acts[i].click})
        /\ UNCHANGED <<bags, mcfgs, tcfgs, modals, hosts, lastEv, fin, made, propVars, cmdVars, tableVars, variantVars>>

\* ModalConfig::default()
ModalConfig_default ==
    /\ made.mcfg < MaxCfgs
    /\ made' = [made EXCEPT !.mcfg = @ + 1]
    /\ LET r == ModalConfigDefault(slots, bags, <<"mcfg", made.mcfg + 1>>)
       IN  /\ mcfgs' = Append(mcfgs, r.cfg)
           /\ slots' = r.slots
           /\ bags' = r.bags
    /\ UNCHANGED <<acts, tcfgs, modals, hosts, lastEv, fin, propVars, cmdVars, tableVars, variantVars>>

\* ModalConfig::set_on_show .. set_on_deny on a configuration the
\* application holds: the assignment to the field drops the closure it held
SetOn(r) ==
    \E i \in DOMAIN mcfgs, f \in Handlers :
        /\ Cardinality(Attached(slots)) < MaxAttach
        /\ LET a == AttachRole(mcfgs[i], bags[mcfgs[i].js_config], r, Successor(mcfgs[i][r]))
           IN  /\ mcfgs' = [mcfgs EXCEPT ![i] = a.cfg]
               /\ bags' = [bags EXCEPT ![mcfgs[i].js_config] = a.bag]
        /\ slots' = Release(Alloc(slots, Successor(mcfgs[i][r]), f), {mcfgs[i][r]})
        /\ UNCHANGED <<acts, tcfgs, modals, hosts, lastEv, fin, made, propVars, cmdVars, tableVars, variantVars>>

set_on_show == SetOn("on_show")

set_on_visible == SetOn("on_visible")

set_on_hide == SetOn("on_hide")

set_on_hidden == SetOn("on_hidden")

set_on_approve == SetOn("on_approve")

set_on_deny == SetOn("on_deny")

\* a ModalConfig goes out of scope
ModalConfig_drop ==
    \E i \in DOMAIN mcfgs :
        /\ mcfgs' = Remove(mcfgs, i)
        /\ slots' = Release(slots, ConfigSlots(mcfgs[i]))
        /\ UNCHANGED <<bags, acts, tcfgs, modals, hosts, lastEv, fin, made, propVars, cmdVars, tableVars, variantVars>>

\* Modal::new(modal_config): the configuration is moved into the Modal
Modal_new ==
    \E i \in DOMAIN mcfgs :
        /\ made.modal < MaxModals
        /\ Len(hosts) + 2 <= MaxHosts
        /\ made' = [made EXCEPT !.modal = @ + 1]
        /\ LET r == ModalNew(mcfgs[i], slots, bags, hosts, made.modal + 1)
           IN  /\ modals' = Append(modals, r.modal)
               /\ slots' = r.slots
               /\ bags' = r.bags
               /\ hosts' = r.hosts
               /\ mcfgs' = Remove(mcfgs, i)
               /\ fin' = [kind |-> "Modal::new", before |-> ConfigSlots(mcfgs[i]), acts |-> {},
                          widget |-> ModalSlots(r.modal),
                          builder |-> UNION {ConfigSlots(mcfgs'[j]) :
                                       j \in {k \in DOMAIN mcfgs' :
                                                mcfgs'[k].js_config = mcfgs[i].js_config}}]
        /\ UNCHANGED <<acts, tcfgs, lastEv, propVars, cmdVars, tableVars, variantVars>>

\* Modal::new_alert / new_confirm / new_prompt
NewTemplate(ctor, field) ==
    \E f \in Handlers :
        /\ made.modal < MaxModals
        /\ Cardinality(Attached(slots)) < MaxAttach
        /\ Len(hosts) + 2 <= MaxHosts
        /\ made' = [made EXCEPT !.modal = @ + 1]
        /\ LET r == ModalTemplate(ctor, field, f, slots, bags, hosts, made.modal + 1)
           IN  /\ modals' = Append(modals, r.modal)
               /\ slots' = r.slots
               /\ bags' = r.bags
               /\ hosts' = r.hosts
        /\ UNCHANGED <<acts, mcfgs, tcfgs, lastEv, fin, propVars, cmdVars, tableVars, variantVars>>

new_alert == NewTemplate("new_modal_alert", "alert_handler")

new_confirm == NewTemplate("new_modal_confirm", "confirm_handler")

new_prompt == NewTemplate("new_modal_prompt", "prompt_handler")

\* Modal::with_title / with_content / with_class / with_close_icon: one
\* setter call on the bag of the Modal's configuration
ModalWith(k, vals) ==
    \E i \in DOMAIN modals, v \in vals :
        /\ bags' = [bags EXCEPT ![modals[i].modal_config.js_config] = Put(@, k, v)]
        /\ UNCHANGED <<slots, acts, mcfgs, tcfgs, modals, hosts, lastEv, fin, made, propVars, cmdVars, tableVars, variantVars>>

Modal_with_title == ModalWith("title", Texts)

Modal_with_content == ModalWith("content", Texts)

Modal_with_class == ModalWith("class", Texts)

Modal_with_close_icon == ModalWith("close_icon", BOOLEAN)

\* Modal::with_actions taking the vector by reference: the Actions stay
\* with the application
Modal_with_actions_by_ref ==
    \E i \in DOMAIN modals, n \in 0..Len(acts) :
        LET b == modals[i].modal_config.js_config
            r == WithActions(modals[i].action_handler_list, bags[b], SubSeq(acts, 1, n))
        IN  /\ modals' = [modals EXCEPT ![i].action_handler_list = r.list]
            /\ bags' = [bags EXCEPT ![b] = r.bag]
            /\ UNCHANGED <<slots, acts, mcfgs, tcfgs, hosts, lastEv, fin, made, propVars, cmdVars, tableVars, variantVars>>

\* Modal::with_actions(actions): the vector is the first n Actions the
\* application holds
Modal_with_actions ==
    \E i \in DOMAIN modals, n \in 0..Len(acts) :
        LET b == modals[i].modal_config.js_config
            r == WithActions(modals[i].action_handler_list, bags[b], SubSeq(acts, 1, n))
        IN  /\ modals' = [modals EXCEPT ![i].action_handler_list = r.list]
            /\ bags' = [bags EXCEPT ![b] = r.bag]
            /\ acts' = SubSeq(acts, n + 1, Len(acts))
            /\ UNCHANGED <<slots, mcfgs, tcfgs, hosts, lastEv, fin, made, propVars, cmdVars, tableVars, variantVars>>

\* Modal::show .. set_active: operation op forwards its token to js_modal
Command(op, tok) ==
    \E i \in DOMAIN modals :
        LET h == modals[i].js_modal
        IN  /\ Len(IssuedTo(h)) < MaxLog
            /\ hosts' = Forward(hosts, h, tok)
            /\ issued' = Put(issued, h, Append(IssuedTo(h), op))
            /\ UNCHANGED <<slots, bags, acts, mcfgs, tcfgs, modals, lastEv, fin, made,
                           answer, propVars, tableVars, variantVars>>

show == Command("show", "show")

hide == Command("hide", "hide")

toggle == Command("toggle", "toggle")

refresh == Command("refresh", "refresh")

show_dimmer == Command("show_dimmer", "show dimmer")

hide_dimmer == Command("hide_dimmer", "hide dimmer")

hide_others == Command("hide_others", "hide others")

hide_all == Command("hide_all", "hide all")

cache_sizes == Command("cache_sizes", "cache sizes")

set_active == Command("set_active", "set active")

\* Modal::can_fit / is_active: operation op forwards its token to js_modal
\* and returns the boolean the host answers
Query(op, tok) ==
    \E i \in DOMAIN modals, b \in BOOLEAN :
        LET h == modals[i].js_modal
        IN  /\ Len(IssuedTo(h)) < MaxLog
            /\ hosts' = Forward(hosts, h, tok)
            /\ issued' = Put(issued, h, Append(IssuedTo(h), op))
            /\ answer' = [token |-> tok, host |-> b, ret |-> b]
            /\ UNCHANGED <<slots, bags, acts, mcfgs, tcfgs, modals, lastEv, fin, made,
                           propVars, tableVars, variantVars>>

can_fit == Query("can_fit", "can fit")

is_active == Query("is_active", "is active")

\* Modal::destroy that also drops the closures of the Modal
destroy_dropping ==
    \E i \in DOMAIN modals :
        LET h == modals[i].js_modal
        IN  /\ Len(IssuedTo(h)) < MaxLog
            /\ hosts' = [Forward(hosts, h, "destroy") EXCEPT ![h].destroyed = TRUE]
            /\ issued' = Put(issued, h, Append(IssuedTo(h), "destroy"))
            /\ slots' = Release(slots, ModalSlots(modals[i]))
            /\ UNCHANGED <<bags, acts, mcfgs, tcfgs, modals, lastEv, fin, made,
                           answer, propVars, tableVars, variantVars>>

\* Modal::destroy: the host processes "destroy"
destroy ==
    \E i \in DOMAIN modals :
        LET h == modals[i].js_modal
        IN  /\ Len(IssuedTo(h)) < MaxLog
            /\ hosts' = [Forward(hosts, h, "destroy") EXCEPT ![h].destroyed = TRUE]
            /\ issued' = Put(issued, h, Append(IssuedTo(h), "destroy"))
            /\ UNCHANGED <<slots, bags, acts, mcfgs, tcfgs, modals, lastEv, fin, made,
                           answer, propVars, tableVars, variantVars>>

\* a Modal goes out of scope: its fields are dropped
Modal_drop ==
    \E i \in DOMAIN modals :
        /\ modals' = Remove(modals, i)
        /\ slots' = Release(slots, ModalSlots(modals[i]))
        /\ UNCHANGED <<bags, acts, mcfgs, tcfgs, hosts, lastEv, fin, made, propVars, cmdVars, tableVars, variantVars>>

\* ToastConfig::new()
ToastConfig_new ==
    /\ made.tcfg < MaxCfgs
    /\ made' = [made EXCEPT !.tcfg = @ + 1]
    /\ LET r == ToastConfigNew(slots, bags, made.tcfg + 1)
       IN  /\ tcfgs' = Append(tcfgs, r.cfg)
           /\ slots' = r.slots
           /\ bags' = r.bags
    /\ UNCHANGED <<acts, mcfgs, modals, hosts, lastEv, fin, propVars, cmdVars, tableVars, variantVars>>

\* ToastConfig::with_actions(actions): the vector is the first n Actions the
\* application holds
ToastConfig_with_actions ==
    \E i \in DOMAIN tcfgs, n \in 0..Len(acts) :
        LET b == tcfgs[i].js_config
            r == WithActions(tcfgs[i].action_handler_list, bags[b], SubSeq(acts, 1, n))
        IN  /\ tcfgs' = [tcfgs EXCEPT ![i].action_handler_list = r.list]
            /\ bags' = [bags EXCEPT ![b] = r.bag]
            /\ acts' = SubSeq(acts, n + 1, Len(acts))
            /\ UNCHANGED <<slots, mcfgs, modals, hosts, lastEv, fin, made, propVars, cmdVars, tableVars, variantVars>>

\* a ToastConfig goes out of scope
ToastConfig_drop ==
    \E i \in DOMAIN tcfgs :
        /\ tcfgs' = Remove(tcfgs, i)
        /\ slots' = Release(slots, ToastConfigSlots(tcfgs[i]))
        /\ UNCHANGED <<bags, acts, mcfgs, modals, hosts, lastEv, fin, made, propVars, cmdVars, tableVars, variantVars>>

\* Toast::new(&config): the configuration is borrowed and stays with the
\* application
Toast_new ==
    \E i \in DOMAIN tcfgs :
        /\ Len(hosts) + 1 <= MaxHosts
        /\ hosts' = NewHost(hosts, "new_toast", tcfgs[i].js_config, bags, NoSlot,
                            NextCons(hosts))
        /\ fin' = [kind |-> "Toast::new", before |-> ToastConfigSlots(tcfgs[i]),
                   acts |-> Range(tcfgs[i].action_handler_list),
                   widget |-> ToastSlots(Len(hosts) + 1),
                   builder |-> UNION {ToastConfigSlots(tcfgs[j]) :
                                j \in {k \in DOMAIN tcfgs :
                                         tcfgs[k].js_config = tcfgs[i].js_config}}]
        /\ UNCHANGED <<slots, bags, acts, mcfgs, tcfgs, modals, lastEv, made, propVars, cmdVars, tableVars, variantVars>>

\* Toast::minimal / titled / progress_bar / titled_progress_bar called with
\* the arguments args: a new bag with the given properties, passed to
\* new_toast
Shorthand(bag, args) ==
    /\ Len(hosts) + 1 <= MaxHosts
    /\ given' = Put(given, <<"toast", Len(hosts) + 1>>, args)
    /\ bags' = [x \in (DOMAIN bags) \cup {<<"toast", Len(hosts) + 1>>} |->
                  IF x = <<"toast", Len(hosts) + 1>> THEN bag ELSE bags[x]]
    /\ hosts' = NewHost(hosts, "new_toast", <<"toast", Len(hosts) + 1>>, bags', NoSlot,
                        NextCons(hosts))
    /\ UNCHANGED <<slots, acts, mcfgs, tcfgs, modals, lastEv, fin, made, nops, cmdVars, tableVars, variantVars>>

Toast_minimal ==
    \E m \in Texts :
        Shorthand(Put(EmptyBag, "message", m), Put(EmptyBag, "with_message", m))

Toast_titled ==
    \E t \in Texts, m \in Texts :
        Shorthand(Put(Put(EmptyBag, "title", t), "message", m),
                  Put(Put(EmptyBag, "with_title", t), "with_message", m))

Toast_progress_bar ==
    \E m \in Texts, pb \in ProgressBars :
        Shorthand(Put(Put(EmptyBag, "message", m),
                      "showProgress", ProgressBarPositionToString(pb.position)),
                  Put(Put(EmptyBag, "with_message", m), "with_progress_bar", pb))

Toast_titled_progress_bar ==
    \E t \in Texts, m \in Texts, pb \in ProgressBars :
        Shorthand(Put(Put(Put(EmptyBag, "title", t), "message", m),
                      "showProgress", ProgressBarPositionToString(pb.position)),
                  Put(Put(Put(EmptyBag, "with_title", t), "with_message", m),
                      "with_progress_bar", pb))

(* ---------------------- primitive builder operations ------------------- *)

\* a primitive operation of ToastConfig, called with an argument a of the domain
\* of writes: the bag of the configuration receives the setter calls writes[a]
ToastOp(name, writes) ==
    \E i \in DOMAIN tcfgs, a \in DOMAIN writes :
        LET b == tcfgs[i].js_config
        IN  /\ nops < MaxOps
            /\ bags' = [bags EXCEPT ![b] = SetAll(@, writes[a])]
            /\ nops' = nops + 1
            /\ given' = Put(given, b, Put(GivenTo(b), name, a))
            /\ UNCHANGED <<slots, acts, mcfgs, tcfgs, modals, hosts, lastEv, fin, made,
                           cmdVars, tableVars, variantVars>>

ToastConfig_with_message == ToastOp("with_message", [a \in Texts |-> WithMessage(a)])

ToastConfig_with_title == ToastOp("with_title", [a \in Texts |-> WithTitle(a)])

ToastConfig_with_progress_bar ==
    ToastOp("with_progress_bar", [a \in ProgressBars |-> WithProgressBar(a)])

ToastConfig_with_class == ToastOp("with_class", [a \in Texts |-> ToastWithClass(a)])

ToastConfig_position == ToastOp("position", [a \in Positions |-> Position(a)])

ToastConfig_newest_on_top == ToastOp("newest_on_top", [a \in BOOLEAN |-> NewestOnTop(a)])

ToastConfig_horizontal == ToastOp("horizontal", [a \in BOOLEAN |-> Horizontal(a)])

ToastConfig_display_time == ToastOp("display_time", [a \in DisplayTimes |-> DisplayTime(a)])

\* a primitive operation of Action, called with an argument a of the domain of
\* writes: the fragment of the Action receives the setter calls writes[a]
ActionOp(name, writes) ==
    \E i \in DOMAIN acts, a \in DOMAIN writes :
        LET b == <<"act", acts[i].click[2]>>
        IN  /\ nops < MaxOps
            /\ acts' = [acts EXCEPT ![i].js_config = SetAll(@, writes[a])]
            /\ nops' = nops + 1
            /\ given' = Put(given, b, Put(GivenTo(b), name, a))
            /\ UNCHANGED <<slots, bags, mcfgs, tcfgs, modals, hosts, lastEv, fin, made,
                           cmdVars, tableVars, variantVars>>

Action_with_text == ActionOp("with_text", [a \in Texts |-> WithText(a)])

Action_with_class == ActionOp("with_class", [a \in Texts |-> ActionWithClass(a)])

Action_with_icon == ActionOp("with_icon", [a \in Texts |-> WithIcon(a)])

(* --------------------------- Table operations ------------------------- *)

\* the Table component is called with data, n column headings, m column
\* functions and, when cs is <<l>>, column_sorting l; the default of
\* column_sorting is the empty vector. The headings are rendered and the row
\* iterator runs once
Table ==
    /\ keys.pass = 0
    /\ \E d \in Datas, n \in 0..MaxCols, m \in 0..MaxCols,
          cs \in {<<>>} \cup {<<l>> : l \in SortingLists} :
          LET sorting_vec == IF cs = <<>> THEN <<>> ELSE cs[1]
          IN  /\ data' = d
              /\ column_sorting' = sorting_vec
              /\ headings' = heading_items(sorting_vec, n)
              /\ tbody' = [column_heading |-> n, columns |-> m, rows |-> ForRows(d, m)]
              /\ keys' = [pass |-> 1, now |-> ForKeys(d), before |-> <<>>, prev |-> <<>>,
                          changed |-> FALSE]
    /\ UNCHANGED <<slots, bags, acts, mcfgs, tcfgs, modals, hosts, lastEv, fin, made,
                   propVars, cmdVars, variantVars>>

\* the data signal is set to d (possibly the value it had): the row iterator
\* runs again
data_set ==
    /\ keys.pass >= 1
    /\ keys.pass < MaxPass
    /\ \E d \in Datas :
          /\ data' = d
          /\ keys' = [pass |-> keys.pass + 1, now |-> ForKeys(d), before |-> keys.now,
                      prev |-> data, changed |-> d # data]
          /\ tbody' = [tbody EXCEPT !.rows = ForRows(d, tbody.columns)]
    /\ UNCHANGED <<slots, bags, acts, mcfgs, tcfgs, modals, hosts, lastEv, fin, made,
                   column_sorting, headings, propVars, cmdVars, variantVars>>

\* the column_sorting signal is set to l: the heading closures run again
column_sorting_set ==
    /\ keys.pass >= 1
    /\ \E l \in SortingLists :
          /\ column_sorting' = l
          /\ headings' = heading_items(l, Len(headings))
    /\ UNCHANGED <<slots, bags, acts, mcfgs, tcfgs, modals, hosts, lastEv, fin, made,
                   data, keys, tbody, propVars, cmdVars, variantVars>>

\* Modal::query_from_selector(selector) of the variant that has it
query_from_selector ==
    \E selector \in Selectors :
        LET r == new_modal_from_selector(selector)
        IN  /\ lookup' = [selector |-> selector,
                          host |-> IF Dollar(selector).thrown THEN "thrown"
                                   ELSE IF Dollar(selector).elements = 0 THEN "nothing"
                                   ELSE "found",
                          result |-> IF r.ok THEN "Ok" ELSE "Err",
                          diagnostic |-> IF r.ok THEN "" ELSE FormatError(r.e),
                          widget |-> r.ok]
            /\ UNCHANGED <<slots, bags, acts, mcfgs, tcfgs, modals, hosts, lastEv, fin, made,
                           propVars, cmdVars, tableVars, serde>>

\* Modal::new(&config) of the variant that serializes its configuration;
\* representable tells whether the interop layer can represent the struct
Modal_new_from_serde ==
    \E config \in SerdeConfigs, representable \in BOOLEAN :
        /\ serde' = NewFromSerde(config, from_serde(config, representable))
        /\ UNCHANGED <<slots, bags, acts, mcfgs, tcfgs, modals, hosts, lastEv, fin, made,
                       propVars, cmdVars, tableVars, lookup>>

(* ----------------------------- host events ---------------------------- *)

\* the application holds the Modal of host object h
Held(h) == \E i \in DOMAIN modals : modals[i].js_modal = h

\* what a closure made from handler f returns to its caller: the result of
\* the handler; handler 2 returns false, handler 1 and the default closure
\* return true
Returns(f) == f # 2

\* the host goes on with what it was about to do unless the setting it
\* called returned false or threw
Proceeds(ret) == ret \in {"none", "true"}

\* the host calls the handle s: the closure runs when it is alive and the
\* call throws when it was dropped; reg is the closure the application
\* registered for the event, ret what the host receives from the call
Call(h, r, i, s, reg) ==
    lastEv' = [res |-> IF s = NoSlot THEN "nohandler"
                       ELSE IF slots[s].alive THEN "invoked" ELSE "threw",
               host |-> h, role |-> r, idx |-> i, slot |-> s,
               fn |-> IF s # NoSlot /\ slots[s].alive THEN slots[s].fn ELSE 0,
               reg |-> reg,
               want |-> IF reg = NoSlot THEN 0 ELSE slots[reg].fn,
               held |-> Held(h),
               ret |-> IF s = NoSlot THEN "none"
                       ELSE IF ~slots[s].alive THEN "exception"
                       ELSE IF Returns(slots[s].fn) THEN "true" ELSE "false"]

\* the closure registered in a bag under key k
Registered(bag, k) == IF Has(bag, k) THEN bag[k] ELSE NoSlot

\* a lifecycle event (show, visible, hide, hidden, approve, deny) of a host
\* modal built from a bag: the host calls the setting it reads for the role
HostLifecycle ==
    \E h \in DOMAIN hosts, r \in RoleSet :
        /\ hosts[h].ctor = "new_modal"
        /\ Exists(h)
        /\ Call(h, r, 0, Registered(hosts[h].seen, HostKey(r)),
                Registered(hosts[h].seen, SetterKey(r)))
        /\ UNCHANGED <<slots, bags, acts, mcfgs, tcfgs, modals, hosts, fin, made, propVars, cmdVars, tableVars, variantVars>>

\* the user clicks action i of a host object
HostClick ==
    \E h \in DOMAIN hosts :
        /\ Exists(h)
        /\ Has(hosts[h].seen, "actions")
        /\ \E i \in DOMAIN hosts[h].seen["actions"] :
              LET a == hosts[h].seen["actions"][i]
              IN  Call(h, "click", i, Registered(a, "click"), Registered(a, "click"))
        /\ UNCHANGED <<slots, bags, acts, mcfgs, tcfgs, modals, hosts, fin, made, propVars, cmdVars, tableVars, variantVars>>

\* the user answers an alert, confirm or prompt modal: the host calls the
\* handler passed to the template constructor
HostTemplate ==
    \E h \in DOMAIN hosts :
        /\ Exists(h)
        /\ hosts[h].handler # NoSlot
        /\ Call(h, "template", 0, hosts[h].handler, hosts[h].handler)
        /\ UNCHANGED <<slots, bags, acts, mcfgs, tcfgs, modals, hosts, fin, made, propVars, cmdVars, tableVars, variantVars>>

\* a toast closes (display time elapsed or clicked) and leaves the document
HostRemove ==
    \E h \in DOMAIN hosts :
        /\ hosts[h].ctor = "new_toast"
        /\ ~hosts[h].removed
        /\ hosts' = [hosts EXCEPT ![h].removed = TRUE]
        /\ UNCHANGED <<slots, bags, acts, mcfgs, tcfgs, modals, lastEv, fin, made, propVars, cmdVars, tableVars, variantVars>>

\* the lifetime of a Modal: configuration, handlers, finalization, events,
\* destroy and drop
NextModal ==
    \/ ModalConfig_default
    \/ set_on_show
    \/ set_on_visible
    \/ set_on_hide
    \/ set_on_hidden
    \/ set_on_approve
    \/ set_on_deny
    \/ ModalConfig_drop
    \/ Modal_new
    \/ new_alert
    \/ new_confirm
    \/ new_prompt
    \/ destroy
    \/ Modal_drop
    \/ HostLifecycle
    \/ HostTemplate

SpecModal == Init /\ [][NextModal]_vars

\* the handler roles: attaching and replacing handlers, moving Actions into
\* a Modal or a ToastConfig, finalization
NextAttach ==
    \/ Action_new
    \/ Action_click
    \/ ModalConfig_default
    \/ set_on_show
    \/ set_on_visible
    \/ set_on_hide
    \/ set_on_hidden
    \/ set_on_approve
    \/ set_on_deny
    \/ Modal_new
    \/ Modal_with_actions

SpecAttach == Init /\ [][NextAttach]_vars

\* the construction of widgets and the writes to their bags
NextBuild ==
    \/ ModalConfig_default
    \/ Modal_new
    \/ new_alert
    \/ new_confirm
    \/ new_prompt
    \/ Modal_with_title
    \/ Modal_with_content
    \/ Modal_with_class
    \/ Modal_with_close_icon
    \/ ToastConfig_new
    \/ Toast_new
    \/ Toast_minimal
    \/ Toast_titled
    \/ Toast_progress_bar
    \/ Toast_titled_progress_bar

SpecBuild == Init /\ [][NextBuild]_vars

\* the lifetime of a Toast: configuration, Actions, finalization, clicks
NextToast ==
    \/ Action_new
    \/ Action_click
    \/ Action_drop
    \/ ToastConfig_new
    \/ ToastConfig_with_actions
    \/ ToastConfig_drop
    \/ Toast_new
    \/ HostClick
    \/ HostRemove

SpecToast == Init /\ [][NextToast]_vars

\* a ToastConfig with message, title and position, finalized
NextToastProps ==
    \/ ToastConfig_new
    \/ ToastConfig_with_message
    \/ ToastConfig_with_title
    \/ ToastConfig_position
    \/ Toast_new

SpecToastProps == Init /\ [][NextToastProps]_vars

\* the with_X operations of ToastConfig and Action, and Action::click
NextProps ==
    \/ ToastConfig_new
    \/ ToastConfig_with_message
    \/ ToastConfig_with_title
    \/ ToastConfig_with_progress_bar
    \/ ToastConfig_with_class
    \/ ToastConfig_position
    \/ ToastConfig_newest_on_top
    \/ ToastConfig_horizontal
    \/ ToastConfig_display_time
    \/ Action_new
    \/ Action_with_text
    \/ Action_with_class
    \/ Action_with_icon
    \/ Action_click

SpecProps == Init /\ [][NextProps]_vars

\* the imperative operations of a Modal
NextCommand ==
    \/ ModalConfig_default
    \/ Modal_new
    \/ show
    \/ hide
    \/ toggle
    \/ refresh
    \/ show_dimmer
    \/ hide_dimmer
    \/ hide_others
    \/ hide_all
    \/ cache_sizes
    \/ can_fit
    \/ is_active
    \/ set_active
    \/ destroy
    \/ Modal_drop

SpecCommand == Init /\ [][NextCommand]_vars

\* a Table: its headings and the keys of its rows
NextTable ==
    \/ Table
    \/ data_set
    \/ column_sorting_set

SpecTable == Init /\ [][NextTable]_vars

\* Modals the application looks up or builds, shown, hidden and destroyed
NextLookup ==
    \/ query_from_selector
    \/ Modal_new_from_serde
    \/ ModalConfig_default
    \/ Modal_new
    \/ show
    \/ hide
    \/ destroy

SpecLookup == Init /\ [][NextLookup]_vars

(* ------------------------------- claims ------------------------------- *)

\* C1: while a host object exists, every closure whose handle it holds (from
\* its property bag or its constructor) is alive
C1_SlotsOutliveHost ==
    \A h \in DOMAIN hosts :
        Exists(h) => \A s \in HandlesHeld(h) : slots[s].alive

\* C2: an event of a widget the application holds, for which a handler was
\* attached, invokes that handler once; no handler runs once the widget is
\* dropped
C2_HandlersFirePerEvent ==
    /\ (lastEv.res # "none" /\ lastEv.held /\ lastEv.want # 0)
          => (lastEv.res = "invoked" /\ lastEv.fn = lastEv.want)
    /\ lastEv.res = "invoked" => lastEv.held

\* C3: after finalization the widget owns every closure the builder held
\* and the builder owns none of them
C3_FinalizeTransfersOwnership ==
    fin.kind # "none" => (fin.before \subseteq fin.widget /\ fin.builder = {})

\* C4: no two host constructor calls receive the bag of the same builder
C4_BuilderFinalizedOnce ==
    \A h1, h2 \in DOMAIN hosts :
        (h1 # h2 /\ hosts[h1].props # NoBag) => hosts[h1].props # hosts[h2].props

\* C5: every construction of a widget calls one host constructor: no two host
\* objects come from the same construction
C5_OneHostPerConstruction ==
    \A h1, h2 \in DOMAIN hosts : h1 # h2 => hosts[h1].cons # hosts[h2].cons

\* C6: a bag that was passed to a host constructor is not written afterwards
C6_NoWriteAfterConstructor ==
    [][\A h \in DOMAIN hosts :
          hosts[h].props # NoBag => bags'[hosts[h].props] = bags[hosts[h].props]]_vars

\* C7: after handler A of a role was replaced by handler B, only B is
\* reachable from the bags and the host objects, an event of the role invokes
\* B, and A is never invoked
C7_LastWriteWins ==
    /\ \A b \in DOMAIN bags : BagHandles(bags[b]) \cap Superseded = {}
    /\ \A h \in DOMAIN hosts : BagHandles(hosts[h].seen) \cap Superseded = {}
    /\ lastEv.res = "invoked" => lastEv.slot \notin Superseded
    /\ (/\ lastEv.role \in RoleSet
        /\ lastEv.held
        /\ lastEv.want # 0
        /\ lastEv.reg[4] >= 2)
          => (lastEv.res = "invoked" /\ lastEv.fn = lastEv.want)

\* the bag of a builder holds, for every handler role written, the handle of
\* the closure the builder owns for the role
CurrentIn(cfg) ==
    \A r \in RoleSet :
        Has(bags[cfg.js_config], SetterKey(r))
            => /\ bags[cfg.js_config][SetterKey(r)] = cfg[r]
               /\ slots[cfg[r]].alive

\* C8: after every attach operation the bag entry of the role is the handle of
\* the closure the builder owns for the role, never that of a superseded one
C8_BagHoldsCurrentHandle ==
    /\ \A i \in DOMAIN acts :
          Has(acts[i].js_config, "click")
              => /\ acts[i].js_config["click"] = acts[i].click
                 /\ slots[acts[i].click].alive
    /\ \A i \in DOMAIN mcfgs : CurrentIn(mcfgs[i])
    /\ \A i \in DOMAIN modals : CurrentIn(modals[i].modal_config)
    /\ \A b \in DOMAIN bags : BagHandles(bags[b]) \cap Superseded = {}

\* a handler was attached to a role that already had one: the bag holds the
\* second closure and the first is superseded
C8_Witness ==
    \/ \E i \in DOMAIN acts :
          /\ Has(acts[i].js_config, "click")
          /\ acts[i].click[4] >= 2
          /\ acts[i].click \notin Superseded
    \/ \E i \in DOMAIN mcfgs, r \in RoleSet :
          /\ Has(bags[mcfgs[i].js_config], SetterKey(r))
          /\ mcfgs[i][r][4] >= 2
          /\ mcfgs[i][r] \notin Superseded

\* C9: a widget built with k Actions owns their k click closures, and a click
\* on action i invokes the handler of action i
C9_ActionTransfer ==
    /\ fin.kind # "none" => fin.acts \subseteq fin.widget
    /\ (lastEv.role = "click" /\ lastEv.want # 0)
          => (lastEv.res = "invoked" /\ lastEv.fn = lastEv.want)

\* C10: the click closures a builder owns and the actions array of its bag
\* have the same length and correspond entry by entry
C10_ActionsArrayMatchesSlots ==
    \A i \in DOMAIN tcfgs :
        LET bag == bags[tcfgs[i].js_config]
            list == tcfgs[i].action_handler_list
        IN  IF Has(bag, "actions")
            THEN /\ Len(bag["actions"]) = Len(list)
                 /\ \A j \in DOMAIN list :
                       Has(bag["actions"][j], "click")
                           => bag["actions"][j]["click"] = list[j]
            ELSE list = <<>>

\* the host token of each ToastPosition
HostToken ==
    [p \in Positions |->
        CASE p = "BottomRight" -> "bottom right"
          [] p = "BottomLeft" -> "bottom left"
          [] p = "TopRight" -> "top right"
          [] p = "TopLeft" -> "top left"
          [] p = "TopAttached" -> "top attached"
          [] p = "BottomAttached" -> "bottom attached"]

\* C11: Toast::new on a ToastConfig given message m, title t and position p
\* makes one host constructor call, and the bag the host receives has
\* message = m, title = t, position = the host token of p, no actions (or an
\* empty array) and no handler
C11_ToastPropertyBag ==
    [][Len(hosts') # Len(hosts) =>
          /\ Len(hosts') = Len(hosts) + 1
          /\ LET h == hosts'[Len(hosts')]
                 g == GivenTo(h.props)
             IN  {"with_message", "with_title", "position"} \subseteq DOMAIN g =>
                    /\ Has(h.seen, "message") /\ h.seen["message"] = g["with_message"]
                    /\ Has(h.seen, "title") /\ h.seen["title"] = g["with_title"]
                    /\ Has(h.seen, "position")
                    /\ h.seen["position"] = HostToken[g["position"]]
                    /\ Has(h.seen, "actions") => h.seen["actions"] = <<>>
                    /\ ~Has(h.seen, "handler")]_vars

\* a host toast was constructed from a configuration with message, title and
\* position set
C11_Witness ==
    \E h \in DOMAIN hosts :
        /\ hosts[h].ctor = "new_toast"
        /\ {"message", "title", "position"} \subseteq DOMAIN hosts[h].seen
        /\ hosts[h].seen["message"] = "Saved"
        /\ hosts[h].seen["title"] = "Done"
        /\ hosts[h].seen["position"] = "bottom right"

\* the properties in which two bags differ
Changed(b1, b2) ==
    {k \in (DOMAIN b1) \cup (DOMAIN b2) :
        ~(k \in DOMAIN b1 /\ k \in DOMAIN b2 /\ b1[k] = b2[k])}

\* the properties of a progress bar
ProgressKeys == {"showProgress", "classProgress", "progressUp"}

\* C12: every with_X / set_X operation on Action, ToastConfig and ModalConfig
\* writes one property of the bag and leaves every other property unchanged
C12_OnePropertyPerOperation ==
    [][/\ \A b \in DOMAIN bags : Cardinality(Changed(bags[b], bags'[b])) <= 1
       /\ \A i \in DOMAIN acts, j \in DOMAIN acts' :
             acts[i].click[2] = acts'[j].click[2]
                => Cardinality(Changed(acts[i].js_config, acts'[j].js_config)) <= 1]_vars

\* C12 (amended): every with_X / set_X operation writes one property of the
\* bag, except with_progress_bar, which writes showProgress and progressUp
\* and, when a class is given, classProgress; every other property of the bag
\* is unchanged
C12_OperationWritesOwnProperties ==
    [][/\ \A b \in DOMAIN bags :
             LET c == Changed(bags[b], bags'[b])
             IN  \/ Cardinality(c) <= 1
                 \/ /\ c \subseteq ProgressKeys
                    /\ {"showProgress", "progressUp"} \subseteq DOMAIN bags'[b]
       /\ \A i \in DOMAIN acts, j \in DOMAIN acts' :
             acts[i].click[2] = acts'[j].click[2]
                => Cardinality(Changed(acts[i].js_config, acts'[j].js_config)) <= 1]_vars

\* a configuration received with_progress_bar with a class after another
\* property was written, and an Action received a primitive and a handler
C12_Witness ==
    /\ \E b \in DOMAIN bags :
          ProgressKeys \cup {"message"} \subseteq DOMAIN bags[b]
    /\ \E i \in DOMAIN acts : Cardinality(DOMAIN acts[i].js_config) >= 1

\* the primitive operations, in one order
OpOrder ==
    <<"with_message", "with_title", "with_progress_bar", "with_class", "position",
      "newest_on_top", "horizontal", "display_time", "with_text", "with_icon">>

\* the setter calls of a primitive operation called with a
WritesOf(name, a) ==
    CASE name = "with_message" -> WithMessage(a)
      [] name = "with_title" -> WithTitle(a)
      [] name = "with_progress_bar" -> WithProgressBar(a)
      [] name = "with_class" -> ToastWithClass(a)
      [] name = "position" -> Position(a)
      [] name = "newest_on_top" -> NewestOnTop(a)
      [] name = "horizontal" -> Horizontal(a)
      [] name = "display_time" -> DisplayTime(a)
      [] name = "with_text" -> WithText(a)
      [] name = "with_icon" -> WithIcon(a)

\* the bag after only the last call of each operation in g, applied to a new
\* bag in the order of the sequence ops
RECURSIVE LastOnly(_, _, _)
LastOnly(bag, g, ops) ==
    IF ops = <<>> THEN bag
    ELSE LastOnly(IF Head(ops) \in DOMAIN g
                  THEN SetAll(bag, WritesOf(Head(ops), g[Head(ops)]))
                  ELSE bag,
                  g, Tail(ops))

Reverse(s) == [i \in DOMAIN s |-> s[Len(s) + 1 - i]]

\* the primitive properties of a bag
Primitive(bag) == [k \in (DOMAIN bag) \ {"click", "actions", "handler"} |-> bag[k]]

\* C13: after any sequence of with_* calls on a ToastConfig or an Action the
\* bag equals the bag obtained from only the last call of each operation,
\* applied in any order
C13_LastCallOfEachOperation ==
    /\ \A b \in DOMAIN bags :
          /\ Primitive(bags[b]) = LastOnly(EmptyBag, GivenTo(b), OpOrder)
          /\ Primitive(bags[b]) = LastOnly(EmptyBag, GivenTo(b), Reverse(OpOrder))
    /\ \A i \in DOMAIN acts :
          LET g == GivenTo(<<"act", acts[i].click[2]>>)
          IN  /\ Primitive(acts[i].js_config) = LastOnly(EmptyBag, g, OpOrder)
              /\ Primitive(acts[i].js_config) = LastOnly(EmptyBag, g, Reverse(OpOrder))

\* the token of each imperative operation
TokenOf ==
    [op \in {"show", "hide", "toggle", "refresh", "show_dimmer", "hide_dimmer",
             "hide_others", "hide_all", "cache_sizes", "set_active", "destroy",
             "can_fit", "is_active"} |->
        CASE op = "show" -> "show"
          [] op = "hide" -> "hide"
          [] op = "toggle" -> "toggle"
          [] op = "refresh" -> "refresh"
          [] op = "show_dimmer" -> "show dimmer"
          [] op = "hide_dimmer" -> "hide dimmer"
          [] op = "hide_others" -> "hide others"
          [] op = "hide_all" -> "hide all"
          [] op = "cache_sizes" -> "cache sizes"
          [] op = "set_active" -> "set active"
          [] op = "destroy" -> "destroy"
          [] op = "can_fit" -> "can fit"
          [] op = "is_active" -> "is active"]

\* C14: the host of a Modal has received, for the operations called on the
\* Modal, their tokens and nothing else, in the order of the calls; a query
\* returns the boolean the host answered
C14_TokensInCallOrder ==
    /\ \A h \in DOMAIN hosts :
          hosts[h].log = [k \in DOMAIN IssuedTo(h) |-> TokenOf[IssuedTo(h)[k]]]
    /\ answer.token # "" =>
          /\ answer.token \in {"can fit", "is active"}
          /\ answer.ret = answer.host

\* show, hide and can_fit were called on a Modal, and the query was answered
C14_Witness ==
    /\ \E h \in DOMAIN hosts : hosts[h].log = <<"show", "hide", "can fit">>
    /\ answer.token = "can fit"

\* C15: every operation called on a Modal after destroy is forwarded to the
\* host with its token, destroy included
C15_ForwardedAfterDestroy ==
    \A h \in DOMAIN issued :
        \A j \in DOMAIN issued[h] :
            (\E i \in 1..(j - 1) : issued[h][i] = "destroy")
                => /\ j \in DOMAIN hosts[h].log
                   /\ hosts[h].log[j] = TokenOf[issued[h][j]]

\* an operation was called on a Modal after destroy
C15_Witness ==
    \E h \in DOMAIN issued :
        /\ Len(issued[h]) >= 2
        /\ issued[h][1] = "destroy"
        /\ hosts[h].destroyed

\* the closure wrapping the handler a template constructor was given
TemplateHandler(m) == {m.alert_handler, m.confirm_handler, m.prompt_handler} \ {NoSlot}

\* C16: a Modal built by new_alert, new_confirm or new_prompt owns the closure
\* of its handler and no other closure, and no closure of a ModalConfig is
\* alive on its account
C16_TemplateBypassesConfig ==
    \A i \in DOMAIN modals :
        TemplateHandler(modals[i]) # {} =>
            /\ ModalSlots(modals[i]) = TemplateHandler(modals[i])
            /\ ConfigSlots(modals[i].modal_config) = {}

\* every field of an Action, ModalConfig, ToastConfig or Modal that holds a
\* closure, as <<owner type, owner, <<field, position in the field>>, closure>>
Holdings ==
    {<<"Action", i, <<"click", 0>>, acts[i].click>> : i \in DOMAIN acts}
    \cup {<<"ModalConfig", p[1], <<p[2], 0>>, mcfgs[p[1]][p[2]]>> : p \in (DOMAIN mcfgs) \X RoleSet}
    \cup {<<"ToastConfig", i, <<"handler", 0>>, tcfgs[i].handler>> : i \in DOMAIN tcfgs}
    \cup UNION {{<<"ToastConfig", i, <<"action_handler_list", k>>, tcfgs[i].action_handler_list[k]>> :
                    k \in DOMAIN tcfgs[i].action_handler_list} : i \in DOMAIN tcfgs}
    \cup {<<"Modal", p[1], <<p[2], 0>>, modals[p[1]].modal_config[p[2]]>> :
            p \in (DOMAIN modals) \X RoleSet}
    \cup UNION {{<<"Modal", i, <<"action_handler_list", k>>, modals[i].action_handler_list[k]>> :
                    k \in DOMAIN modals[i].action_handler_list} : i \in DOMAIN modals}
    \cup {h \in {<<"Modal", p[1], <<p[2], 0>>, modals[p[1]][p[2]]>> :
                   p \in (DOMAIN modals)
                          \X {"alert_handler", "confirm_handler", "prompt_handler"}} :
            h[4] # NoSlot}

\* the fields that hold closure s
Holders(s) == {<<h[1], h[2], h[3]>> : h \in {g \in Holdings : g[4] = s}}

C19_SortTokenSelection ==
    \A c \in DOMAIN headings :
        LET i == c - 1
            token == IF i < Len(column_sorting)
                     THEN (IF column_sorting[i + 1] = "Float" THEN "float" ELSE "")
                     ELSE ""
        IN  /\ headings[c].sorting_class = token
            /\ headings[c].classes = IF token = "" THEN <<>> ELSE <<token>>

\* a Table of two columns rendered with column_sorting = [Float]
C19_Witness ==
    /\ column_sorting = <<"Float">>
    /\ Len(headings) = 2
    /\ headings[1].classes = <<"float">>
    /\ headings[2].classes = <<>>

\* C20: query_from_selector returns the widget when the host finds an object
\* for the selector; when it finds none the result is an error that carries
\* the host's diagnostic, and no widget is created
C20_LookupFailsWithoutObject ==
    /\ lookup.host = "found" => lookup.result = "Ok" /\ lookup.widget
    /\ lookup.host \in {"nothing", "thrown"} =>
          /\ lookup.result = "Err"
          /\ lookup.diagnostic # ""
          /\ ~lookup.widget

C22_SettersUseHostNames ==
    /\ \A b \in DOMAIN bags : \A r \in RoleSet :
          Has(bags[b], SetterKey(r))
              => /\ Has(bags[b], HostKey(r))
                 /\ bags[b][HostKey(r)] = bags[b][SetterKey(r)]
    /\ (lastEv.role \in RoleSet /\ lastEv.reg # NoSlot /\ slots[lastEv.reg].alive)
          => (lastEv.res = "invoked" /\ lastEv.slot = lastEv.reg)

\* C23: the host receives the boolean the invoked handler returned, and the
\* host hides a modal the application holds only if the on-hide handler
\* attached to it returned true
C23_HandlerResultDecides ==
    /\ lastEv.res = "invoked" => lastEv.ret = (IF lastEv.fn = 2 THEN "false" ELSE "true")
    /\ (lastEv.role = "on_hide" /\ lastEv.held /\ lastEv.want # 0)
          => (Proceeds(lastEv.ret) <=> lastEv.want # 2)

\* C24: a step that calls an operation of a Modal, destroy included, leaves
\* the Modals with their host handles, the closures and the bags as they
\* were; a closure of a Modal is dropped only in a step that drops the Modal
C24_CommandsDisposeNothing ==
    [][/\ issued' # issued => (modals' = modals /\ slots' = slots /\ bags' = bags)
       /\ (\E i \in DOMAIN modals : \E s \in ModalSlots(modals[i]) :
              slots[s].alive /\ ~slots'[s].alive)
            => Len(modals') < Len(modals)]_vars

\* destroy was called on a Modal the application still holds, and every
\* closure of the Modal is alive
C24_Witness ==
    \E i \in DOMAIN modals :
        /\ hosts[modals[i].js_modal].destroyed
        /\ "destroy" \in Range(IssuedTo(modals[i].js_modal))
        /\ \A s \in ModalSlots(modals[i]) : slots[s].alive

\* C25: an Action owns one live click closure and a ModalConfig six live
\* lifecycle closures, a closure that was replaced is dropped, and no host
\* object holds the handle of a replaced closure
C25_OneSlotPerRole ==
    /\ \A i \in DOMAIN acts : slots[acts[i].click].alive
    /\ \A i \in DOMAIN mcfgs :
          /\ Cardinality(ConfigSlots(mcfgs[i])) = Len(Roles)
          /\ \A r \in RoleSet : slots[mcfgs[i][r]].alive
    /\ \A s \in DOMAIN slots : Successor(s) \in DOMAIN slots => ~slots[s].alive
    /\ \A h \in DOMAIN hosts : \A s \in HandlesHeld(h) : Successor(s) \notin DOMAIN slots

\* a handler of a ModalConfig was replaced before Modal::new, and the host
\* modal built from the bag holds the handle of the second closure
C25_Witness ==
    \E h \in DOMAIN hosts : \E s \in HandlesHeld(h) :
        /\ s[4] >= 2
        /\ slots[s].alive
        /\ <<s[1], s[2], s[3], 1>> \in Superseded

\* C26: no bag, no fragment of an Action and no host object holds the handle
\* of a default closure, and no event invokes one
C26_DefaultsNotRegistered ==
    /\ \A b \in DOMAIN bags : \A s \in BagHandles(bags[b]) : slots[s].fn # 0
    /\ \A i \in DOMAIN acts : \A s \in BagHandles(acts[i].js_config) : slots[s].fn # 0
    /\ \A h \in DOMAIN hosts : \A s \in HandlesHeld(h) : slots[s].fn # 0
    /\ lastEv.res = "invoked" => lastEv.fn # 0

\* an Action without a click handler was passed to with_actions: the
\* ToastConfig owns its default closure and the fragment in the actions
\* array of a host toast has no click property
C26_Witness ==
    \E i \in DOMAIN tcfgs, h \in DOMAIN hosts :
        /\ hosts[h].props = tcfgs[i].js_config
        /\ \E s \in Range(tcfgs[i].action_handler_list) : slots[s].fn = 0 /\ slots[s].alive
        /\ Has(hosts[h].seen, "actions")
        /\ \E k \in DOMAIN hosts[h].seen["actions"] : ~Has(hosts[h].seen["actions"][k], "click")

\* C27: a row has the key every row of the run before with the same content
\* had, whatever the positions of the two rows and the other rows of the two
\* collections
C27_KeyPerItemOnly ==
    \A i \in DOMAIN data : \A j \in DOMAIN keys.prev :
        data[i] = keys.prev[j] => keys.now[i] = keys.before[j]

\* two rows of one collection with the same content have the same key, and
\* the run before had that content in one row only, after a different row
C27_Witness ==
    /\ Len(data) = 2
    /\ data[1] = data[2]
    /\ keys.now[1] = keys.now[2]
    /\ Len(keys.prev) = 2
    /\ keys.prev[1] # data[1]
    /\ keys.prev[2] = data[1]
    /\ keys.before[2] = keys.now[1]

\* C28: every rendered row has one cell per column function, cell j being
\* what column function j returns for the item of the row, and there is one
\* heading per heading function whatever the length of column_sorting
C28_RowRendering ==
    /\ Len(tbody.rows) = Len(data)
    /\ \A i \in DOMAIN tbody.rows :
          /\ Len(tbody.rows[i]) = tbody.columns
          /\ \A j \in DOMAIN tbody.rows[i] :
                tbody.rows[i][j] = [column |-> j, item |-> data[i]]
    /\ Len(headings) = tbody.column_heading

\* a Table of two rows, two column functions and two headings, rendered
\* with a column_sorting of one entry
C28_Witness ==
    /\ Len(data) = 2
    /\ tbody.columns = 2
    /\ Len(tbody.rows) = 2
    /\ Len(tbody.rows[2]) = 2
    /\ tbody.column_heading = 2
    /\ Len(column_sorting) = 1
    /\ Len(headings) = 2

\* C29: the bag a Toast shorthand passes to the host constructor is the bag
\* of a new ToastConfig after with_message, with_title and with_progress_bar
\* were called with the arguments of the shorthand
C29_ShorthandEqualsBuilder ==
    \A h \in DOMAIN hosts :
        (hosts[h].ctor = "new_toast" /\ hosts[h].props[1] = "toast")
            => hosts[h].seen = LastOnly(EmptyBag, GivenTo(hosts[h].props), OpOrder)

\* C30: after display_time(d) the displayTime property is the decimal text
\* of t for Time(t), "0" for UntilClicked and "auto" for BasedOnWordAmount,
\* and no other selection has that token
C30_DisplayTimeTokens ==
    \A b \in DOMAIN bags :
        "display_time" \in DOMAIN GivenTo(b) =>
            LET d == GivenTo(b)["display_time"]
                token == bags[b]["displayTime"]
            IN  /\ d = [kind |-> "Time", t |-> 0] => token = "0"
                /\ d = [kind |-> "Time", t |-> 1500] => token = "1500"
                /\ d.kind = "UntilClicked" => token = "0"
                /\ d.kind = "BasedOnWordAmount" => token = "auto"
                /\ \A e \in DisplayTimes : e # d => ToastDisplayTimeToString(e) # token

====
